---------------------------- MODULE Spec2Model ----------------------------
(***************************************************************************)
(* A model of the MongoDB gateway service (main.py, db.py, schema_infer.py)*)
(* as a state machine: the startup hook that builds the collection -> db   *)
(* index, the /aggregate, /schema and /databases handlers, and the pure    *)
(* helpers of schema inference (extract_paths, flatten_nested_lists_       *)
(* recursively, _safe_value) and of identifier handling (normalize_        *)
(* objectid, convert_objectids).                                           *)
(*                                                                         *)
(* Python values are modelled as records of one shape                      *)
(*     [t |-> type tag, v |-> scalar text, keys |-> dict keys,             *)
(*      items |-> dict values / list elements]                             *)
(* so that a dict is its insertion-ordered keys with their values and a    *)
(* list is its elements.  Scalars carry their text in v.                   *)
(***************************************************************************)
EXTENDS Integers, Sequences, FiniteSets, TLC

VARIABLES
    store,                 \* the document store: db name -> collection name -> list of documents
    dbOrder,               \* the order in which the store enumerates its databases
    envDbName,             \* os.getenv("DB_NAME"), "" when unset
    started,               \* whether the startup hook has run
    collection_to_db_map,  \* main.collection_to_db_map
    startupSnapshot,       \* history: the collection names of each database as the startup hook found them
    last,                  \* the last request handled and what it did (response, store operations)
    cache,                 \* the lru_cache of get_schema_map_and_samples, least recently used first
    history,               \* history: for each schema key called, the result last returned for it
    recency,               \* history: schema keys in order of last successful call, oldest first
    input,                 \* the argument of the pure function under check
    output,                \* the value the function returned
    pc                     \* "start" before the function is applied, then "done"

vars == <<store, dbOrder, envDbName, started, collection_to_db_map, startupSnapshot,
          last, cache, history, recency, input, output, pc>>

serviceVars == <<store, dbOrder, envDbName, started, collection_to_db_map,
                 startupSnapshot, last, cache, history, recency>>

pureVars == <<input, output, pc>>

(***************************************************************************)
(* Python values                                                           *)
(***************************************************************************)
Scalar(tag, text) == [t |-> tag, v |-> text, keys |-> <<>>, items |-> <<>>]

None == Scalar("NoneType", "")

StrV(s) == Scalar("str", s)

IntV(s) == Scalar("int", s)

FloatV(s) == Scalar("float", s)

ObjectId(s) == Scalar("ObjectId", s)

BytesV(s) == Scalar("bytes", s)

DatetimeV(s) == Scalar("datetime", s)

Opaque(s) == Scalar("Decimal128", s)

Dict(ks, vs) == [t |-> "dict", v |-> "", keys |-> ks, items |-> vs]

List(vs) == [t |-> "list", v |-> "", keys |-> <<>>, items |-> vs]

\* The marker of a raised exception, where a Python call does not return.
Raise(what) == Scalar("raise", what)

IsDict(x) == x.t = "dict"

IsList(x) == x.t = "list"

IsStr(x) == x.t = "str"

Raised(x) == x.t = "raise"

HasKey(d, k) == \E i \in 1..Len(d.keys) : d.keys[i] = k

\* d[k] of a dict that has the key k.
Get(d, k) == d.items[CHOOSE i \in 1..Len(d.keys) : d.keys[i] = k]

\* The sequence s with f applied to every element.
Map(s, f(_)) == [i \in 1..Len(s) |-> f(s[i])]

RECURSIVE Concat(_)
\* The concatenation of a sequence of sequences.
Concat(ss) == IF ss = <<>> THEN <<>> ELSE Head(ss) \o Concat(Tail(ss))

(***************************************************************************)
(* schema_infer.flatten_nested_lists_recursively                           *)
(***************************************************************************)
\* Lines 35-43: one level of un-nesting of a list that holds a list.
CollapseOneLevel(items) ==
    Concat([i \in 1..Len(items) |->
              IF IsList(items[i]) THEN items[i].items ELSE <<items[i]>>])

RECURSIVE flatten_nested_lists_recursively(_)
flatten_nested_lists_recursively(data) ==
    IF IsDict(data)
    THEN Dict(data.keys,
              [i \in 1..Len(data.items) |-> flatten_nested_lists_recursively(data.items[i])])
    ELSE IF IsList(data)
    THEN LET has_nested_list == \E i \in 1..Len(data.items) : IsList(data.items[i])
             flattened == IF has_nested_list THEN CollapseOneLevel(data.items)
                                             ELSE data.items
         IN  List([i \in 1..Len(flattened) |-> flatten_nested_lists_recursively(flattened[i])])
    ELSE data

(***************************************************************************)
(* schema_infer.extract_paths                                              *)
(***************************************************************************)
\* type(v).__name__
TypeName(x) == x.t

\* MergePaths with the merge written as an assignment, paths[p] = t: the tags of a
\* later value replace those seen before.
MergePathsOverwrite(paths, sub) ==
    [p \in DOMAIN paths \cup DOMAIN sub |-> IF p \in DOMAIN sub THEN sub[p] ELSE paths[p]]

\* paths[p].update(t) for every (p, t) of sub: the union of the tag sets per path.
MergePaths(paths, sub) ==
    [p \in DOMAIN paths \cup DOMAIN sub |->
        (IF p \in DOMAIN paths THEN paths[p] ELSE {})
        \cup (IF p \in DOMAIN sub THEN sub[p] ELSE {})]

\* f"{current_path}.{k}" if current_path else k
NewPath(current_path, k) == IF current_path = "" THEN k ELSE current_path \o "." \o k

EmptyPaths == [p \in {} |-> {}]

RECURSIVE extract_paths(_, _)
RECURSIVE ExtractDictItems(_, _, _, _)
RECURSIVE ExtractListItems(_, _, _, _)

\* The loop of lines 14-19 from item i on, paths being the map built so far.
ExtractDictItems(doc, current_path, i, paths) ==
    IF i > Len(doc.keys) THEN paths
    ELSE LET new_path == NewPath(current_path, doc.keys[i])
             tagged == MergePaths(paths, [p \in {new_path} |-> {TypeName(doc.items[i])}])
             sub_paths == extract_paths(doc.items[i], new_path)
         IN  ExtractDictItems(doc, current_path, i + 1, MergePaths(tagged, sub_paths))

\* The loop of lines 21-24 from element i on.
ExtractListItems(doc, current_path, i, paths) ==
    IF i > Len(doc.items) THEN paths
    ELSE ExtractListItems(doc, current_path, i + 1,
                          MergePaths(paths, extract_paths(doc.items[i], current_path)))

extract_paths(doc, current_path) ==
    IF IsDict(doc) THEN ExtractDictItems(doc, current_path, 1, EmptyPaths)
    ELSE IF IsList(doc) THEN ExtractListItems(doc, current_path, 1, EmptyPaths)
    ELSE EmptyPaths

(***************************************************************************)
(* schema_infer._safe_value                                                *)
(***************************************************************************)
\* The texts Python's int() parses, with the integer each denotes (surrounding
\* white space is dropped, a sign is read).
IntTexts == {"0", "1", "12", " 7 ", "2025", "86400000"}

IntOfText(s) == IF s = " 7 " THEN "7" ELSE s

\* The texts float() parses and int() does not.
FloatTexts == {"1.5"}

\* int(x)
PyInt(x) ==
    CASE x.t = "int" -> x
      [] x.t = "bool" -> IntV(IF x.v = "True" THEN "1" ELSE "0")
      [] x.t = "float" -> IntV("1")
      [] x.t = "str" -> IF x.v \in IntTexts THEN IntV(IntOfText(x.v)) ELSE Raise("ValueError")
      [] OTHER -> Raise("TypeError")

\* float(x)
PyFloat(x) ==
    CASE x.t = "float" -> x
      [] x.t = "int" -> FloatV(x.v \o ".0")
      [] x.t = "bool" -> FloatV(IF x.v = "True" THEN "1.0" ELSE "0.0")
      [] x.t = "str" -> IF x.v \in IntTexts THEN FloatV(IntOfText(x.v) \o ".0")
                        ELSE IF x.v \in FloatTexts THEN FloatV(x.v)
                        ELSE Raise("ValueError")
      [] OTHER -> Raise("TypeError")

\* datetime.fromtimestamp(x / 1000).isoformat(), the process running in UTC.
IsoOfEpochMs(x) ==
    CASE x.t = "int" /\ x.v = "0" -> StrV("1970-01-01T00:00:00")
      [] x.t = "int" /\ x.v = "86400000" -> StrV("1970-01-02T00:00:00")
      [] x.t = "int" -> StrV("1970-01-01T00:00:00." \o x.v)
      [] x.t = "float" -> StrV("1970-01-01T00:00:00.001500")
      [] x.t = "bool" -> StrV("1970-01-01T00:00:00")
      [] OTHER -> Raise("TypeError")

\* The first raised element of a sequence of results, None when none is.
FirstRaised(rs) ==
    IF \E i \in 1..Len(rs) : Raised(rs[i])
    THEN rs[CHOOSE i \in 1..Len(rs) : Raised(rs[i]) /\ \A j \in 1..(i - 1) : ~Raised(rs[j])]
    ELSE None

RECURSIVE _safe_value(_)
_safe_value(v) ==
    IF IsDict(v) THEN
        IF HasKey(v, "$numberInt") THEN PyInt(Get(v, "$numberInt"))
        ELSE IF HasKey(v, "$numberDouble") THEN PyFloat(Get(v, "$numberDouble"))
        ELSE IF HasKey(v, "$numberLong") THEN PyInt(Get(v, "$numberLong"))
        ELSE IF HasKey(v, "$date") THEN IsoOfEpochMs(Get(v, "$date"))
        ELSE LET rs == [i \in 1..Len(v.items) |-> _safe_value(v.items[i])]
             IN  IF Raised(FirstRaised(rs)) THEN FirstRaised(rs) ELSE Dict(v.keys, rs)
    ELSE IF v.t = "ObjectId" THEN StrV(v.v)
    ELSE IF v.t = "bytes" THEN StrV("base64:" \o v.v)
    ELSE IF v.t = "datetime" THEN StrV(v.v)
    ELSE IF IsList(v) THEN
        LET rs == [i \in 1..Len(v.items) |-> _safe_value(v.items[i])]
        IN  IF Raised(FirstRaised(rs)) THEN FirstRaised(rs) ELSE List(rs)
    ELSE IF v.t \in {"str", "int", "float", "bool", "NoneType"} THEN v
    ELSE StrV("repr:" \o v.v)


(***************************************************************************)
(* main.convert_objectids, main.normalize_objectid                         *)
(***************************************************************************)
\* The 24-digit hexadecimal texts of the model, with the text str(ObjectId(s))
\* gives back for each: ObjectId keeps the twelve bytes, str() prints them in
\* lower case.
OidCanonical ==
    [s \in {"64b7f1a2c3d4e5f601234567", "64B7F1A2C3D4E5F601234567",
            "64b7f1a2c3d4e5f6012345ff"} |->
        IF s = "64B7F1A2C3D4E5F601234567" THEN "64b7f1a2c3d4e5f601234567" ELSE s]

\* ObjectId.is_valid(s) of a str s
ObjectIdIsValid(s) == s \in DOMAIN OidCanonical

\* ObjectId(s) of a valid s
ObjectIdOf(s) == ObjectId(OidCanonical[s])

RECURSIVE convert_objectids(_)
convert_objectids(obj) ==
    IF IsList(obj) THEN List([i \in 1..Len(obj.items) |-> convert_objectids(obj.items[i])])
    ELSE IF IsDict(obj)
    THEN Dict(obj.keys, [i \in 1..Len(obj.items) |-> convert_objectids(obj.items[i])])
    ELSE IF obj.t = "ObjectId" THEN StrV(obj.v)
    ELSE obj

\* Lines 72-78: the "$in" list of d with its valid identifier strings converted.
ConvertInList(d) ==
    LET pos == CHOOSE i \in 1..Len(d.keys) : d.keys[i] = "$in"
        old == d.items[pos].items
        converted_in_values ==
            [j \in 1..Len(old) |->
                IF IsStr(old[j]) /\ ObjectIdIsValid(old[j].v) THEN ObjectIdOf(old[j].v)
                ELSE old[j]]
    IN  Dict(d.keys, [d.items EXCEPT ![pos] = List(converted_in_values)])

RECURSIVE normalize_objectid(_)
\* The value data holds after normalize_objectid(data) has rewritten it in place.
normalize_objectid(data) ==
    IF IsDict(data)
    THEN Dict(data.keys,
              [i \in 1..Len(data.items) |->
                 LET k == data.keys[i]
                     v == data.items[i]
                 IN  IF k = "_id"
                     THEN IF IsStr(v) /\ ObjectIdIsValid(v.v) THEN ObjectIdOf(v.v)
                          ELSE IF IsDict(v) /\ HasKey(v, "$in") /\ IsList(Get(v, "$in"))
                               THEN ConvertInList(v)
                               ELSE normalize_objectid(v)
                     ELSE IF IsDict(v) \/ IsList(v) THEN normalize_objectid(v)
                     ELSE v])
    ELSE IF IsList(data)
    THEN List([i \in 1..Len(data.items) |->
                 IF IsDict(data.items[i]) \/ IsList(data.items[i])
                 THEN normalize_objectid(data.items[i])
                 ELSE data.items[i]])
    ELSE data

(***************************************************************************)
(* The document store behind motor / pymongo                               *)
(***************************************************************************)
IntOf(n) == IntV(ToString(n))

EmptyFilter == Dict(<<>>, <<>>)

\* The documents of a collection; a collection that does not exist is empty.
Docs(st, db, coll) ==
    IF db \in DOMAIN st /\ coll \in DOMAIN st[db] THEN st[db][coll] ELSE <<>>

\* doc[k], a missing field reading as null.
Field(doc, k) == IF HasKey(doc, k) THEN Get(doc, k) ELSE None

\* Whether a document satisfies a filter: equality per key, membership for "$in".
Matches(doc, filter) ==
    \A i \in 1..Len(filter.keys) :
        LET fv == filter.items[i]
            dv == Field(doc, filter.keys[i])
        IN  IF IsDict(fv) /\ HasKey(fv, "$in") /\ IsList(Get(fv, "$in"))
            THEN \E j \in 1..Len(Get(fv, "$in").items) : Get(fv, "$in").items[j] = dv
            ELSE dv = fv

Matching(docs, filter) == LET Test(d) == Matches(d, filter) IN SelectSeq(docs, Test)

\* collection.count_documents(filter): the count, or the error raised.
StoreCount(docs, filter, fails) ==
    IF fails \/ ~IsDict(filter) THEN Raise("OperationFailure")
    ELSE IntOf(Len(Matching(docs, filter)))

\* collection.find_one(filter): the first match, None, or the error raised.
StoreFindOne(docs, filter, fails) ==
    IF fails \/ ~IsDict(filter) THEN Raise("OperationFailure")
    ELSE IF Matching(docs, filter) = <<>> THEN None ELSE Head(Matching(docs, filter))

\* The year of the timestamps of the model.
YearOf == [s \in {"2025-07-01T00:00:00", "2024-03-05T00:00:00"} |->
              IF s = "2025-07-01T00:00:00" THEN "2025" ELSE "2024"]

\* An $addFields expression on a document: {"$year": "$<field>"} or a literal.
EvalExpr(expr, doc) ==
    IF IsDict(expr) /\ expr.keys = <<"$year">> /\ expr.items[1] = StrV("$Date")
    THEN IF Field(doc, "Date").t = "datetime" /\ Field(doc, "Date").v \in DOMAIN YearOf
         THEN IntV(YearOf[Field(doc, "Date").v]) ELSE None
    ELSE expr

SetField(doc, k, val) ==
    IF HasKey(doc, k)
    THEN Dict(doc.keys, [i \in 1..Len(doc.items) |-> IF doc.keys[i] = k THEN val ELSE doc.items[i]])
    ELSE Dict(Append(doc.keys, k), Append(doc.items, val))

RECURSIVE AddFields(_, _, _)
AddFields(doc, fields, i) ==
    IF i > Len(fields.keys) THEN doc
    ELSE AddFields(SetField(doc, fields.keys[i], EvalExpr(fields.items[i], doc)), fields, i + 1)

RECURSIVE RunStages(_, _, _)
\* The documents stages i.. of a pipeline make of docs, or the error raised.
RunStages(docs, pipeline, i) ==
    IF i > Len(pipeline) THEN List(docs)
    ELSE LET stage == pipeline[i]
         IN  IF ~IsDict(stage) \/ Len(stage.keys) # 1 \/ ~IsDict(stage.items[1])
             THEN Raise("OperationFailure")
             ELSE IF stage.keys[1] = "$match"
             THEN RunStages(Matching(docs, stage.items[1]), pipeline, i + 1)
             ELSE IF stage.keys[1] = "$addFields"
             THEN RunStages([j \in 1..Len(docs) |-> AddFields(docs[j], stage.items[1], 1)],
                            pipeline, i + 1)
             ELSE Raise("OperationFailure")

\* collection.aggregate(pipeline).to_list(None)
StoreAggregate(docs, pipeline, fails) ==
    IF fails THEN Raise("OperationFailure") ELSE RunStages(docs, pipeline, 1)

(***************************************************************************)
(* db.py                                                                   *)
(***************************************************************************)
\* db.get_db(name): the name of the database handle, or the error raised.
get_db(name) ==
    LET db_name == IF name # "" THEN name ELSE envDbName
    IN  IF db_name = "" THEN Raise("RuntimeError") ELSE StrV(db_name)

\* db.get_database_names(): client.list_database_names(), every database of
\* the store in the store's order.
get_database_names(order) == order

\* db.get_collection_names(db_name), as a set: names are unique in a database.
get_collection_names(st, db_name) == IF db_name \in DOMAIN st THEN DOMAIN st[db_name] ELSE {}

RECURSIVE BuildMap(_, _, _, _)
\* The loop of db.py lines 46-49 from database i on.
BuildMap(st, db_names, i, local_map) ==
    IF i > Len(db_names) THEN local_map
    ELSE LET collections == get_collection_names(st, db_names[i])
         IN  BuildMap(st, db_names, i + 1,
                      [c \in DOMAIN local_map \cup collections |->
                          IF c \in collections THEN db_names[i] ELSE local_map[c]])

get_collection_to_db_map(st, order) == BuildMap(st, get_database_names(order), 1, <<>>)

(***************************************************************************)
(* main.startup_event                                                      *)
(***************************************************************************)
\* dict.update: the entries of temp_map over those of the map.
DictUpdate(map, temp_map) ==
    [c \in DOMAIN map \cup DOMAIN temp_map |->
        IF c \in DOMAIN temp_map THEN temp_map[c] ELSE map[c]]

startup_event(map, st, order) == DictUpdate(map, get_collection_to_db_map(st, order))

(***************************************************************************)
(* main.aggregate_query                                                    *)
(***************************************************************************)
\* json.loads of the stage texts of the model.
JsonLoads(x) ==
    IF ~IsStr(x) THEN Raise("TypeError")
    ELSE CASE x.v = "{\"$match\": {\"status\": \"shipped\"}}" ->
                  Dict(<<"$match">>, <<Dict(<<"status">>, <<StrV("shipped")>>)>>)
           [] x.v = "{\"$match\": {\"_id\": \"64b7f1a2c3d4e5f6012345ff\"}}" ->
                  Dict(<<"$match">>, <<Dict(<<"_id">>, <<StrV("64b7f1a2c3d4e5f6012345ff")>>)>>)
           [] x.v = "\"$match\"" -> StrV("$match")
           [] OTHER -> Raise("JSONDecodeError")

\* Lines 119-128: the pipeline of the payload, stage texts parsed, or the error
\* json.loads raised.
ParsePipeline(raw_pipeline) ==
    IF IsList(raw_pipeline) /\ raw_pipeline.items # <<>> /\ IsStr(raw_pipeline.items[1])
    THEN LET loaded == [i \in 1..Len(raw_pipeline.items) |-> JsonLoads(raw_pipeline.items[i])]
         IN  IF \E i \in 1..Len(loaded) : Raised(loaded[i]) THEN Raise("Exception")
             ELSE List(loaded)
    ELSE raw_pipeline

\* ResolveDatabase with the index consulted before the explicit db_name.
ResolveDatabaseIndexFirst(db_name, collection_name, map) ==
    IF collection_name \in DOMAIN map THEN map[collection_name]
    ELSE IF db_name # None /\ db_name.v # "" THEN db_name.v
    ELSE IF envDbName # "" THEN envDbName
    ELSE ""

\* Lines 140-159: the name of the target database, "" when none can be inferred.
ResolveDatabase(db_name, collection_name, map) ==
    IF db_name # None /\ db_name.v # "" THEN db_name.v
    ELSE IF collection_name \in DOMAIN map THEN map[collection_name]
    ELSE IF envDbName # "" THEN envDbName
    ELSE ""

RECURSIVE FirstMatchStage(_, _)
\* Lines 180-184: stage["$match"] of the first stage that has the key, else None.
FirstMatchStage(pipeline, i) ==
    IF i > Len(pipeline) THEN None
    ELSE IF IsDict(pipeline[i]) /\ HasKey(pipeline[i], "$match") THEN Get(pipeline[i], "$match")
    ELSE FirstMatchStage(pipeline, i + 1)

\* MatchCount with the probe's outcome dropped: an unsupported count leaves the
\* match count unknown whatever find_one found.
MatchCountWithoutProbe(counted, found) == IF ~Raised(counted) THEN counted ELSE None

\* Lines 187-197: the match count the handler settles on, given what
\* count_documents and (when attempted) find_one returned or raised.
MatchCount(counted, found) ==
    IF ~Raised(counted) THEN counted
    ELSE IF ~Raised(found) THEN (IF found # None THEN IntV("1") ELSE IntV("0"))
    ELSE None

\* IsZeroMatch written as "if not match_count": an unknown count short-circuits too.
IsZeroOrUnknownMatch(match_count) == match_count = IntV("0") \/ match_count = None

\* Line 200: whether the handler short-circuits on this match count.
IsZeroMatch(match_count) == match_count = IntV("0")

HintMessage == "No documents matched the pipeline's $match - check the field path, type, or value."

StoreOp(name, db, coll, arg, result) ==
    [op |-> name, db |-> db, coll |-> coll, arg |-> arg, result |-> result]

NoRequest ==
    [op |-> "none", payload |-> <<>>, status |-> 0, body |-> None, target |-> "",
     pipeline |-> None, total_docs |-> None, match_stage |-> None, match_count |-> None,
     ops |-> <<>>,
     \* of a schema request: the key, whether the store was read, and (history)
     \* the result the key's previous call returned and the number of distinct
     \* other keys called since
     key |-> None, queried |-> FALSE, repeat |-> FALSE, previous |-> None, others |-> 0]

HttpError(base, code, detail) ==
    [base EXCEPT !.status = code, !.body = Dict(<<"detail">>, <<StrV(detail)>>)]

\* The handler on a payload, the store operations named in faults failing: the
\* request record with the response and the store operations performed.
aggregate_query(payload, faults, st, map) ==
    LET base == [NoRequest EXCEPT !.op = "aggregate", !.payload = payload]
        pipeline == ParsePipeline(payload.pipeline)
    IN
    IF Raised(pipeline)
    THEN HttpError(base, 400, "Invalid pipeline JSON strings")
    ELSE IF ~IsList(pipeline)
    THEN HttpError(base, 400, "Pipeline must be a list")
    ELSE
    LET stages == [i \in 1..Len(pipeline.items) |-> normalize_objectid(pipeline.items[i])]
        collection_name == payload.collection
        target_db_name == ResolveDatabase(payload.db_name, collection_name, map)
        parsed == [base EXCEPT !.pipeline = List(stages), !.target = target_db_name]
    IN
    IF target_db_name = ""
    THEN HttpError(parsed, 400, "Database for collection could not be inferred")
    ELSE
    LET target_db == get_db(target_db_name).v
        docs == Docs(st, target_db, collection_name)
        total == StoreCount(docs, EmptyFilter, "count_all" \in faults)
        total_docs == IF Raised(total) THEN None ELSE total
        op1 == StoreOp("count_documents", target_db, collection_name, EmptyFilter, total)
        match_stage == FirstMatchStage(stages, 1)
        counted == StoreCount(docs, match_stage, "count_match" \in faults)
        found == StoreFindOne(docs, match_stage, "find_one" \in faults)
        match_count == IF match_stage # None THEN MatchCount(counted, found) ELSE None
        ops2 == IF match_stage = None THEN <<op1>>
                ELSE <<op1, StoreOp("count_documents", target_db, collection_name,
                                    match_stage, counted)>>
                     \o (IF Raised(counted)
                         THEN <<StoreOp("find_one", target_db, collection_name,
                                        match_stage, found)>>
                         ELSE <<>>)
        diagnosed == [parsed EXCEPT !.total_docs = total_docs, !.match_stage = match_stage,
                                    !.match_count = match_count]
        debug_info == Dict(<<"collection", "db_name", "total_docs", "match_docs",
                             "match_filter", "message">>,
                           <<StrV(collection_name), StrV(target_db_name), total_docs,
                             IntV("0"), match_stage, StrV(HintMessage)>>)
        results == StoreAggregate(docs, stages, "aggregate" \in faults)
        ops3 == Append(ops2, StoreOp("aggregate", target_db, collection_name,
                                     List(stages), results))
    IN
    IF match_stage # None /\ IsZeroMatch(match_count)
    THEN [diagnosed EXCEPT !.status = 200, !.ops = ops2,
                           !.body = Dict(<<"results", "debug">>, <<List(<<>>), debug_info>>)]
    ELSE IF Raised(results)
    THEN [HttpError(diagnosed, 500, results.v) EXCEPT !.ops = ops3]
    ELSE [diagnosed EXCEPT !.status = 200, !.ops = ops3,
                           !.body = Dict(<<"results">>, <<convert_objectids(results)>>)]

(***************************************************************************)
(* main.list_databases_with_collections                                    *)
(***************************************************************************)
RECURSIVE SetToSeq(_)
\* list_collection_names(): the names in the order the store gives them.
SetToSeq(S) == IF S = {} THEN <<>>
               ELSE LET x == CHOOSE y \in S : TRUE IN <<x>> \o SetToSeq(S \ {x})

list_databases_with_collections(st, order) ==
    LET db_names == get_database_names(order)
        NamesOf(db) == LET names == SetToSeq(get_collection_names(st, db))
                       IN  List([i \in 1..Len(names) |-> StrV(names[i])])
    IN  [NoRequest EXCEPT !.op = "databases", !.status = 200,
                          !.body = Dict(db_names, [i \in 1..Len(db_names) |-> NamesOf(db_names[i])])]

(***************************************************************************)
(* The stores, requests and faults of the model                            *)
(***************************************************************************)
OrderA == Dict(<<"_id", "status", "Date">>,
               <<ObjectId("64b7f1a2c3d4e5f601234567"), StrV("shipped"),
                 DatetimeV("2025-07-01T00:00:00")>>)

OrderB == Dict(<<"_id", "status", "Date", "refs">>,
               <<ObjectId("64b7f1a2c3d4e5f6012345ff"), StrV("pending"),
                 DatetimeV("2024-03-05T00:00:00"),
                 List(<<Dict(<<"_id">>, <<ObjectId("64b7f1a2c3d4e5f601234567")>>)>>)>>)

UserU == Dict(<<"_id", "name">>, <<IntV("1"), StrV("ann")>>)

LogL == Dict(<<"_id", "hostname">>, <<StrV("host-1"), StrV("host")>>)

OrderC == Dict(<<"_id", "status", "Date">>,
               <<IntV("12"), StrV("shipped"), DatetimeV("2025-07-01T00:00:00")>>)

\* The most documents the orders collection holds.
MaxOrders == 2

OrderPool == <<OrderB, OrderA, OrderC>>

Min(a, b) == IF a < b THEN a ELSE b

OrdersContents == {SubSeq(OrderPool, 1, Min(n, Len(OrderPool))) : n \in 0..MaxOrders}

OneCollection(name, docs) == [c \in {name} |-> docs]

\* The databases the deployment's own data lives in, as the MongoDB server names them.
SystemDatabases == {"admin", "local", "config"}

DatabaseContents ==
    [shop |-> {OneCollection("orders", c) : c \in OrdersContents},
     crm |-> {OneCollection("orders", <<OrderB>>), OneCollection("users", <<UserU>>)},
     local |-> {OneCollection("startup_log", <<LogL>>)}]

Stores ==
    UNION {{st \in [({"shop"} \cup extra) -> UNION {DatabaseContents[d] : d \in DOMAIN DatabaseContents}] :
               \A d \in DOMAIN st : st[d] \in DatabaseContents[d]}
           : extra \in SUBSET {"crm", "local"}}

Orders(S) == {o \in [1..Cardinality(S) -> S] : \A i, j \in DOMAIN o : o[i] = o[j] => i = j}

DbNameArgs == {None, StrV(""), StrV("shop"), StrV("crm")}

CollectionArgs == {"orders", "users"}

Hex1 == "64b7f1a2c3d4e5f601234567"

Hex1Upper == "64B7F1A2C3D4E5F601234567"

HexF == "64b7f1a2c3d4e5f6012345ff"

MatchOf(filter) == Dict(<<"$match">>, <<filter>>)

Filters ==
    { Dict(<<"status">>, <<StrV("shipped")>>),
      Dict(<<"status">>, <<StrV("cancelled")>>),
      Dict(<<"_id">>, <<StrV(Hex1Upper)>>),
      Dict(<<"_id">>, <<StrV("not-an-id")>>),
      Dict(<<"_id">>, <<Dict(<<"$in">>, <<List(<<StrV(HexF), StrV("abc")>>)>>)>>),
      Dict(<<"_id">>, <<Dict(<<"$in", "$or">>,
                             <<List(<<StrV(Hex1)>>),
                               List(<<Dict(<<"_id">>, <<StrV(HexF)>>)>>)>>)>>),
      Dict(<<"refs">>, <<List(<<Dict(<<"_id">>, <<StrV(Hex1)>>)>>)>>),
      Dict(<<"docYear">>, <<IntV("2025")>>),
      StrV("status") }

AddYear == Dict(<<"$addFields">>, <<Dict(<<"docYear">>, <<Dict(<<"$year">>, <<StrV("$Date")>>)>>)>>)

Pipelines ==
    {List(<<>>)}
    \cup {List(<<MatchOf(f)>>) : f \in Filters}
    \cup {List(<<AddYear, MatchOf(Dict(<<"docYear">>, <<IntV("2025")>>))>>),
          List(<<MatchOf(None)>>),
          List(<<Dict(<<"$unknownStage">>, <<EmptyFilter>>)>>),
          List(<<StrV("{\"$match\": {\"status\": \"shipped\"}}")>>),
          List(<<StrV("{\"$match\": {\"_id\": \"64b7f1a2c3d4e5f6012345ff\"}}")>>),
          List(<<StrV("\"$match\"")>>),
          List(<<StrV("{not json")>>)}

Payloads == [db_name : DbNameArgs, collection : CollectionArgs, pipeline : Pipelines]

FaultSets == SUBSET {"count_all", "count_match", "find_one", "aggregate"}

(***************************************************************************)
(* The service: startup, the handlers, the store's other writers           *)
(***************************************************************************)
IdlePure == input = None /\ output = None /\ pc = "idle"

Init ==
    /\ store \in Stores
    /\ dbOrder \in Orders(DOMAIN store)
    /\ envDbName \in {"", "shop"}
    /\ started = FALSE
    /\ collection_to_db_map = <<>>
    /\ startupSnapshot = <<>>
    /\ last = NoRequest
    /\ cache = <<>>
    /\ history = <<>>
    /\ recency = <<>>
    /\ IdlePure

\* The startup hook, once, before any request is served.
Startup ==
    /\ ~started
    /\ started' = TRUE
    /\ collection_to_db_map' = startup_event(collection_to_db_map, store, dbOrder)
    /\ startupSnapshot' = [d \in DOMAIN store |-> DOMAIN store[d]]
    /\ UNCHANGED <<store, dbOrder, envDbName, last, cache, history, recency, pureVars>>

\* POST /aggregate
Aggregate ==
    /\ started
    /\ last.op = "none"
    /\ \E payload \in Payloads, faults \in FaultSets :
           last' = aggregate_query(payload, faults, store, collection_to_db_map)
    /\ UNCHANGED <<store, dbOrder, envDbName, started, collection_to_db_map,
                   startupSnapshot, cache, history, recency, pureVars>>

\* GET /databases
ListDatabases ==
    /\ started
    /\ last.op = "none"
    /\ last' = list_databases_with_collections(store, dbOrder)
    /\ UNCHANGED <<store, dbOrder, envDbName, started, collection_to_db_map,
                   startupSnapshot, cache, history, recency, pureVars>>

\* The response leaves; the next request may come.
Deliver ==
    /\ last.op # "none"
    /\ last' = NoRequest
    /\ UNCHANGED <<store, dbOrder, envDbName, started, collection_to_db_map,
                   startupSnapshot, cache, history, recency, pureVars>>

\* Another client of the store inserts or deletes orders between requests.
StoreWrite ==
    /\ last.op = "none"
    /\ \E c \in OrdersContents :
           /\ c # store["shop"]["orders"]
           /\ store' = [store EXCEPT !["shop"] = OneCollection("orders", c)]
    /\ UNCHANGED <<dbOrder, envDbName, started, collection_to_db_map,
                   startupSnapshot, last, cache, history, recency, pureVars>>

Next == Startup \/ Aggregate \/ ListDatabases \/ Deliver \/ StoreWrite

Spec == Init /\ [][Next]_vars

(***************************************************************************)
(* What the last aggregate request did, read from its record               *)
(***************************************************************************)
IsAggregate == last.op = "aggregate"

\* Whether the pipeline the handler worked on holds a stage with "$match".
HasMatchStage ==
    /\ last.pipeline # None
    /\ \E i \in 1..Len(last.pipeline.items) :
           IsDict(last.pipeline.items[i]) /\ HasKey(last.pipeline.items[i], "$match")

OpsNamed(name) == {i \in 1..Len(last.ops) : last.ops[i].op = name}

\* The pre-flight match count was determined to be zero: count_documents on
\* the filter gave 0, or it failed and find_one found nothing.
DeterminedZero ==
    /\ Len(last.ops) >= 2
    /\ last.ops[2].op = "count_documents"
    /\ \/ last.ops[2].result = IntV("0")
       \/ /\ Raised(last.ops[2].result)
          /\ Len(last.ops) >= 3
          /\ last.ops[3].op = "find_one"
          /\ last.ops[3].result = None

HasDebug == IsDict(last.body) /\ HasKey(last.body, "debug")

\* C1: when the pipeline has a $match stage and its pre-flight count is
\* determined to be zero, the response is {results: [], debug} with the
\* collection, the resolved database, the total count (None when unknown),
\* match_docs 0, the filter and the hint, and aggregate is not executed; every
\* other successful response has no debug field.
C1_ZeroMatchShortCircuit ==
    IsAggregate =>
        /\ (HasMatchStage /\ DeterminedZero) =>
              /\ last.status = 200
              /\ last.body.keys = <<"results", "debug">>
              /\ Get(last.body, "results") = List(<<>>)
              /\ LET debug == Get(last.body, "debug")
                 IN  /\ Get(debug, "collection") = StrV(last.payload.collection)
                     /\ Get(debug, "db_name") = StrV(last.ops[1].db)
                     /\ Get(debug, "total_docs") =
                            (IF Raised(last.ops[1].result) THEN None ELSE last.ops[1].result)
                     /\ Get(debug, "match_docs") = IntV("0")
                     /\ Get(debug, "match_filter") = last.ops[2].arg
                     /\ Get(debug, "message") = StrV(HintMessage)
              /\ OpsNamed("aggregate") = {}
        /\ (last.status = 200 /\ ~(HasMatchStage /\ DeterminedZero)) => ~HasDebug

\* C1 witness: the short-circuit taken on the find_one probe, count_documents
\* having failed, on a collection that is not empty.
C1_Witness ==
    /\ IsAggregate /\ HasDebug
    /\ Raised(last.ops[2].result)
    /\ last.ops[1].result = IntV("2")
    /\ Get(Get(last.body, "debug"), "total_docs") = IntV("2")

\* C2: the target database is the explicit db_name when one is given, else the
\* database the index maps the collection to, else the default DB_NAME when
\* set; else the request fails with 400 and no store operation is performed.
C2_DatabaseResolution ==
    (IsAggregate /\ last.pipeline # None) =>
        LET given == last.payload.db_name
            coll == last.payload.collection
            expected == IF given # None /\ given.v # "" THEN given.v
                        ELSE IF coll \in DOMAIN collection_to_db_map
                             THEN collection_to_db_map[coll]
                        ELSE envDbName
        IN  IF expected = ""
            THEN last.status = 400 /\ last.ops = <<>>
            ELSE /\ last.status # 400
                 /\ last.target = expected
                 /\ last.ops # <<>>
                 /\ \A i \in 1..Len(last.ops) :
                        last.ops[i].db = expected /\ last.ops[i].coll = coll

\* C2 witness: an explicit db_name wins over the index entry of the collection.
C2_Witness ==
    /\ IsAggregate
    /\ last.payload.db_name = StrV("crm")
    /\ last.payload.collection = "orders"
    /\ "orders" \in DOMAIN collection_to_db_map
    /\ collection_to_db_map["orders"] = "shop"
    /\ last.ops # <<>>
    /\ last.ops[1].db = "crm"

\* C3: a failing pre-flight count never fails the request: a failed
\* count_documents({}) leaves the total unknown; find_one is attempted exactly
\* when count_documents on the filter failed, giving 1 or 0, or unknown when it
\* fails too; and whenever the match count is not zero the pipeline is executed
\* and its results are the response (an error only if aggregate itself fails).
C3_CountFailuresTolerated ==
    (IsAggregate /\ last.ops # <<>>) =>
        LET ops == last.ops
            final == ops[Len(ops)]
            probed == last.match_stage # None /\ Raised(ops[2].result)
        IN  /\ ops[1].op = "count_documents" /\ ops[1].arg = EmptyFilter
            /\ last.total_docs = (IF Raised(ops[1].result) THEN None ELSE ops[1].result)
            /\ last.match_stage # None =>
                  /\ ops[2].op = "count_documents" /\ ops[2].arg = last.match_stage
                  /\ ~Raised(ops[2].result) => last.match_count = ops[2].result
            /\ (OpsNamed("find_one") # {}) <=> probed
            /\ probed =>
                  /\ ops[3].op = "find_one" /\ ops[3].arg = last.match_stage
                  /\ last.match_count =
                        (IF Raised(ops[3].result) THEN None
                         ELSE IF ops[3].result = None THEN IntV("0") ELSE IntV("1"))
            /\ last.match_count # IntV("0") =>
                  /\ final.op = "aggregate" /\ final.arg = last.pipeline
                  /\ IF Raised(final.result) THEN last.status = 500
                     ELSE /\ last.status = 200
                          /\ last.body = Dict(<<"results">>, <<convert_objectids(final.result)>>)
            /\ last.status = 500 => (final.op = "aggregate" /\ Raised(final.result))

\* C3 witness: every pre-flight operation failed and the pipeline's documents
\* were returned all the same.
C3_Witness ==
    /\ IsAggregate
    /\ Len(last.ops) = 4
    /\ \A i \in 1..3 : Raised(last.ops[i].result)
    /\ last.total_docs = None /\ last.match_count = None
    /\ last.status = 200
    /\ Get(last.body, "results").items # <<>>

RECURSIVE FullyNormalized(_)
\* A value with, under every key "_id" at any depth, each valid identifier
\* string given directly or as a member of an "$in" list replaced by the
\* canonical identifier, and nothing else changed.
FullyNormalized(x) ==
    IF IsList(x) THEN List([i \in 1..Len(x.items) |-> FullyNormalized(x.items[i])])
    ELSE IF IsDict(x)
    THEN Dict(x.keys,
              [i \in 1..Len(x.items) |->
                 LET val == x.items[i]
                 IN  IF x.keys[i] = "_id" /\ IsStr(val) /\ ObjectIdIsValid(val.v)
                     THEN ObjectIdOf(val.v)
                     ELSE IF x.keys[i] = "_id" /\ IsDict(val)
                     THEN Dict(val.keys,
                               [j \in 1..Len(val.items) |->
                                  IF val.keys[j] = "$in" /\ IsList(val.items[j])
                                  THEN List([m \in 1..Len(val.items[j].items) |->
                                               LET item == val.items[j].items[m]
                                               IN  IF IsStr(item) /\ ObjectIdIsValid(item.v)
                                                   THEN ObjectIdOf(item.v)
                                                   ELSE FullyNormalized(item)])
                                  ELSE FullyNormalized(Dict(<<val.keys[j]>>, <<val.items[j]>>)).items[1]])
                     ELSE FullyNormalized(val)])
    ELSE x

RECURSIVE HoldsObjectId(_)
HoldsObjectId(x) ==
    \/ x.t = "ObjectId"
    \/ \E i \in 1..Len(x.items) : HoldsObjectId(x.items[i])

\* C4: every store operation of the request gets the normalized form: the
\* filter of count_documents / find_one and the pipeline of aggregate hold the
\* canonical identifier under every key "_id" at any depth, for each valid
\* identifier string given directly or in an "$in" list, other values
\* unchanged; and the documents returned hold identifiers as strings only.
C4_IdentifiersNormalized ==
    (IsAggregate /\ last.pipeline # None) =>
        LET wanted == FullyNormalized(ParsePipeline(last.payload.pipeline))
        IN  /\ \A i \in OpsNamed("aggregate") : last.ops[i].arg = wanted
            /\ \A i \in OpsNamed("find_one") \cup (OpsNamed("count_documents") \ {1}) :
                   last.ops[i].arg = FirstMatchStage(wanted.items, 1)
            /\ (last.status = 200 => ~HoldsObjectId(Get(last.body, "results")))

\* C8: after startup the index has exactly one entry per collection name found
\* in a non-system database, mapping it to the last-enumerated non-system
\* database holding that name, no entry names a system database, and no
\* handler changes the index afterwards.
C8_IndexOfNonSystemDatabases ==
    started =>
        LET userDbs == {i \in 1..Len(dbOrder) : dbOrder[i] \notin SystemDatabases}
            Holders(c) == {i \in userDbs : c \in startupSnapshot[dbOrder[i]]}
            Last(S) == CHOOSE i \in S : \A j \in S : j <= i
        IN  /\ DOMAIN collection_to_db_map =
                   UNION {startupSnapshot[dbOrder[i]] : i \in userDbs}
            /\ \A c \in DOMAIN collection_to_db_map :
                   /\ collection_to_db_map[c] \notin SystemDatabases
                   /\ Holders(c) # {} => collection_to_db_map[c] = dbOrder[Last(Holders(c))]

\* C10: the short-circuit hides no result: whenever the response is the
\* short-circuit one (empty results with debug), the full pipeline run on the
\* same collection state returns no document.
C10_ShortCircuitHidesNothing ==
    (IsAggregate /\ last.status = 200 /\ HasDebug) =>
        RunStages(Docs(store, last.target, last.payload.collection),
                  last.pipeline.items, 1) = List(<<>>)

(***************************************************************************)
(* schema_infer.get_schema_map_and_samples and its lru_cache               *)
(***************************************************************************)
\* The type names of the model in the order sorted() gives strings.
TypeOrder == <<"Decimal128", "NoneType", "ObjectId", "bool", "bytes", "datetime", "dict",
               "float", "int", "list", "str">>

\* sorted(list(types))
SortedTypes(types) ==
    LET In(tag) == tag \in types
        sorted == SelectSeq(TypeOrder, In)
    IN  List([i \in 1..Len(sorted) |-> StrV(sorted[i])])

GuidanceText == "For month/year filtering on this field, prefer using $addFields with $year and $month operators."

\* Lines 110-119: the schema entry of a path.
FieldInfo(path, types) ==
    IF "datetime" \in types \/ "date" \in types \/ path = "Date"
    THEN Dict(<<"types", "query_guidance">>, <<SortedTypes(types), StrV(GuidanceText)>>)
    ELSE Dict(<<"types">>, <<SortedTypes(types)>>)

RECURSIVE CombinePaths(_, _, _)
\* Lines 103-106: the merged path map of the sampled documents from i on.
CombinePaths(docs, i, combined) ==
    IF i > Len(docs) THEN combined
    ELSE CombinePaths(docs, i + 1,
                      MergePaths(combined,
                                 extract_paths(flatten_nested_lists_recursively(docs[i]), "")))

\* cursor = db[coll].find().limit(sample_size)
Sample(docs, sample_size) == SubSeq(docs, 1, IF Len(docs) < sample_size THEN Len(docs) ELSE sample_size)

\* The default of the parameter sample_size.
DefaultSampleSize == 50

\* Lines 98-121: the schema of one collection.
CollectionSchema(docs) ==
    LET combined == CombinePaths(docs, 1, EmptyPaths)
        paths == SetToSeq(DOMAIN combined)
    IN  Dict(paths, [i \in 1..Len(paths) |-> FieldInfo(paths[i], combined[paths[i]])])

\* Lines 123-124: the sample of one collection.
CollectionSample(docs) ==
    IF docs = <<>> THEN None ELSE _safe_value(flatten_nested_lists_recursively(docs[1]))

\* The body of get_schema_map_and_samples: the result, or the error raised.
ComputeSchema(st, db_name, sample_size) ==
    LET chosen_db_name == IF db_name # None /\ db_name.v # "" THEN db_name.v ELSE envDbName
    IN  IF chosen_db_name = "" THEN Raise("RuntimeError")
        ELSE LET colls == SetToSeq(get_collection_names(st, chosen_db_name))
                 docs == [i \in 1..Len(colls) |->
                            Sample(st[chosen_db_name][colls[i]], sample_size)]
                 samples == [i \in 1..Len(colls) |-> CollectionSample(docs[i])]
             IN  IF Raised(FirstRaised(samples)) THEN FirstRaised(samples)
                 ELSE Dict(<<"schema", "samples">>,
                           <<Dict(colls, [i \in 1..Len(colls) |-> CollectionSchema(docs[i])]),
                             Dict(colls, samples)>>)

\* functools.lru_cache(): maxsize defaults to 128.
LruMaxsize == 128

CachePosition(c, key) ==
    IF \E i \in 1..Len(c) : c[i].key = key
    THEN CHOOSE i \in 1..Len(c) : c[i].key = key
    ELSE 0

\* CacheHit of a function left undecorated: every call computes.
CacheNeverHit(c, key) == FALSE

\* Whether the cache answers a call with this key.
CacheHit(c, key) == CachePosition(c, key) # 0

\* The cache after a hit: the entry becomes the most recently used.
CacheTouch(c, key) ==
    LET pos == CachePosition(c, key)
    IN  SubSeq(c, 1, pos - 1) \o SubSeq(c, pos + 1, Len(c)) \o <<c[pos]>>

\* The cache after a miss: the result is stored, the least recently used entry
\* giving way when the cache is full.
CacheStore(c, key, result) ==
    LET kept == IF Len(c) >= LruMaxsize THEN Tail(c) ELSE c
    IN  Append(kept, [key |-> key, result |-> result])

\* get_schema_map_and_samples(db_name) through its cache:
\* [result, queried (whether the store was read), cache (the cache afterwards)].
get_schema_map_and_samples(c, st, db_name) ==
    IF CacheHit(c, db_name)
    THEN [result |-> c[CachePosition(c, db_name)].result, queried |-> FALSE,
          cache |-> CacheTouch(c, db_name)]
    ELSE LET result == ComputeSchema(st, db_name, DefaultSampleSize)
         IN  [result |-> result, queried |-> TRUE,
              cache |-> IF Raised(result) THEN c ELSE CacheStore(c, db_name, result)]

\* main.read_schema: the request record with the response.
read_schema(call) ==
    IF Raised(call.result)
    THEN HttpError([NoRequest EXCEPT !.op = "schema"], 500, call.result.v)
    ELSE [NoRequest EXCEPT !.op = "schema", !.status = 200,
                           !.body = Dict(<<"schema", "samples">>,
                                         <<Get(call.result, "schema"), Get(call.result, "samples")>>)]

(***************************************************************************)
(* Bounded sets of Python values, the inputs of the pure functions         *)
(***************************************************************************)
\* Lists of at most two elements: the first from First, the second from Sib.
ListsOver(First, Sib) ==
    {List(<<>>)} \cup {List(<<x>>) : x \in First}
                 \cup {List(<<x, y>>) : x \in First, y \in Sib}

\* Dicts with the keys of one of KeySeqs (one or two keys each).
DictsOver(First, Sib, KeySeqs) ==
    {Dict(ks, <<x>>) : ks \in {k \in KeySeqs : Len(k) = 1}, x \in First}
    \cup {Dict(ks, <<x, y>>) : ks \in {k \in KeySeqs : Len(k) = 2}, x \in First, y \in Sib}

\* The leaves and the one-key dicts of leaves: what a second element may be.
Shallow(Leaves, KeySeqs) == Leaves \cup DictsOver(Leaves, Leaves, {k \in KeySeqs : Len(k) = 1})

RECURSIVE ValuesTo(_, _, _)
\* The values nested at most d containers deep.
ValuesTo(d, Leaves, KeySeqs) ==
    IF d = 0 THEN Leaves
    ELSE LET First == ValuesTo(d - 1, Leaves, KeySeqs)
             Sib == IF d = 1 THEN Leaves ELSE Shallow(Leaves, KeySeqs)
         IN  Leaves \cup ListsOver(First, Sib) \cup DictsOver(First, Sib, KeySeqs)

FlattenDepth == 3

ExtractDepth == 2

SafeDepth == 2

PlainLeaves == {IntV("1"), StrV("x")}

PlainKeys == {<<"a">>, <<"b">>, <<"a", "b">>}

FlattenInputs(depth) == ValuesTo(depth, PlainLeaves, PlainKeys)

\* Documents: dicts at the top level.
ExtractInputs(depth) ==
    DictsOver(ValuesTo(depth, PlainLeaves, PlainKeys),
              Shallow(PlainLeaves, PlainKeys), PlainKeys)

SafeLeaves == {IntV("0"), StrV("12"), StrV("abc"), StrV(" 7 "), FloatV("1.5"), None,
               ObjectId("64b7f1a2c3d4e5f601234567"), BytesV("AQI="),
               DatetimeV("2025-07-01T00:00:00"), Opaque("1.50")}

SafeKeys == {<<"a">>, <<"$numberInt">>, <<"$numberDouble">>, <<"$numberLong">>,
             <<"$date">>, <<"a", "$numberInt">>}

SafeInputs(depth) == ValuesTo(depth, SafeLeaves, SafeKeys)

(***************************************************************************)
(* The service at rest, for the specifications of the pure functions       *)
(***************************************************************************)
IdleService ==
    /\ store = <<>>
    /\ dbOrder = <<>>
    /\ envDbName = ""
    /\ started = FALSE
    /\ collection_to_db_map = <<>>
    /\ startupSnapshot = <<>>
    /\ last = NoRequest
    /\ cache = <<>>
    /\ history = <<>>
    /\ recency = <<>>

(***************************************************************************)
(* The schema endpoint and its cache                                       *)
(***************************************************************************)
\* The most distinct database names schema requests are made for.
MaxSchemaKeys == 130

SchemaContents == {<<OrderB>>, <<OrderA, OrderB>>}

SchemaStore(orders) ==
    [d \in {"shop"} |-> [c \in {"orders", "archive"} |-> IF c = "orders" THEN orders ELSE <<>>]]

\* Whether key was called before, and how many distinct other keys since.
CalledBefore(key) == \E i \in 1..Len(recency) : recency[i] = key

OthersSince(key) == Len(recency) - (CHOOSE i \in 1..Len(recency) : recency[i] = key)

\* The text the history files a key under: its type and its value.
KeyText(key) == key.t \o ":" \o key.v

\* A database name no schema request was made for yet.
FreshName ==
    LET IsFresh(k) == k # StrV("shop")
    IN  StrV("tenant" \o ToString(Len(SelectSeq(recency, IsFresh)) + 1))

InitSchema ==
    /\ store \in {SchemaStore(c) : c \in SchemaContents}
    /\ dbOrder = <<"shop">>
    /\ envDbName = ""
    /\ started = FALSE
    /\ collection_to_db_map = <<>>
    /\ startupSnapshot = <<>>
    /\ last = NoRequest
    /\ cache = <<>>
    /\ history = <<>>
    /\ recency = <<>>
    /\ IdlePure

StartupSchema ==
    /\ ~started
    /\ started' = TRUE
    /\ collection_to_db_map' = startup_event(collection_to_db_map, store, dbOrder)
    /\ startupSnapshot' = [d \in DOMAIN store |-> DOMAIN store[d]]
    /\ UNCHANGED <<store, dbOrder, envDbName, last, cache, history, recency, pureVars>>

\* POST /schema for the database db_name.
SchemaRequest(db_name) ==
    /\ started
    /\ last.op = "none"
    /\ LET call == get_schema_map_and_samples(cache, store, db_name)
           ok == ~Raised(call.result)
           before == CalledBefore(db_name)
       IN  /\ cache' = call.cache
           /\ last' = [read_schema(call) EXCEPT
                          !.key = db_name, !.queried = call.queried, !.repeat = before,
                          !.previous = IF before THEN history[KeyText(db_name)] ELSE None,
                          !.others = IF before THEN OthersSince(db_name) ELSE 0]
           /\ history' = IF ~ok THEN history
                         ELSE IF before
                         THEN [history EXCEPT ![KeyText(db_name)] = call.result]
                         ELSE (KeyText(db_name) :> call.result) @@ history
           /\ recency' = IF ok
                         THEN LET NotIt(k) == k # db_name
                              IN  Append(SelectSeq(recency, NotIt), db_name)
                         ELSE recency
    /\ UNCHANGED <<store, dbOrder, envDbName, started, collection_to_db_map,
                   startupSnapshot, pureVars>>

\* A request for the database of the deployment.
ReadSchemaShop == SchemaRequest(StrV("shop"))

\* A request with no db_name (no default DB_NAME is set here).
ReadSchemaDefault == SchemaRequest(None)

\* A request for a database name not asked for before.
ReadSchemaFresh == Len(recency) < MaxSchemaKeys /\ SchemaRequest(FreshName)

DeliverSchema ==
    /\ last.op # "none"
    /\ last' = NoRequest
    /\ UNCHANGED <<store, dbOrder, envDbName, started, collection_to_db_map,
                   startupSnapshot, cache, history, recency, pureVars>>

\* Another client of the store inserts or deletes orders between requests.
StoreWriteSchema ==
    /\ last.op = "none"
    /\ \E c \in SchemaContents : c # store["shop"]["orders"] /\ store' = SchemaStore(c)
    /\ UNCHANGED <<dbOrder, envDbName, started, collection_to_db_map,
                   startupSnapshot, last, cache, history, recency, pureVars>>

NextSchema ==
    \/ StartupSchema
    \/ ReadSchemaShop
    \/ ReadSchemaDefault
    \/ ReadSchemaFresh
    \/ DeliverSchema
    \/ StoreWriteSchema

SpecSchema == InitSchema /\ [][NextSchema]_vars

\* C9 as claimed: once a result was returned for a key, every later call with
\* that key returns the same result without reading the store, whatever calls
\* with other keys came in between.
C9_NeverEvicted ==
    (last.op = "schema" /\ last.status = 200 /\ last.repeat) =>
        ~last.queried /\ last.body = last.previous

\* C9 amended: a later call with the same key returns the same result without
\* reading the store as long as fewer than 128 distinct other keys were called
\* since that key's last call; once 128 or more were, the entry is gone and the
\* call reads the store again.
C9_KeptWhileAmongLast128 ==
    (last.op = "schema" /\ last.status = 200 /\ last.repeat) =>
        IF last.others < LruMaxsize
        THEN ~last.queried /\ last.body = last.previous
        ELSE last.queried

\* C9 witness: a repeated call answered from the cache although the store has
\* changed and other keys were called in between.
C9_Witness ==
    /\ last.op = "schema" /\ last.status = 200 /\ last.repeat
    /\ last.key = StrV("shop")
    /\ last.others >= 2
    /\ ~last.queried
    /\ last.body # ComputeSchema(store, StrV("shop"), DefaultSampleSize)

(***************************************************************************)
(* Specifications of the pure functions: Init draws the argument, the      *)
(* action applies the function.                                            *)
(***************************************************************************)
InitFlatten == IdleService /\ input \in FlattenInputs(FlattenDepth) /\ output = None /\ pc = "start"

ApplyFlatten ==
    /\ pc = "start"
    /\ output' = flatten_nested_lists_recursively(input)
    /\ pc' = "done"
    /\ UNCHANGED <<input, serviceVars>>

NextFlatten == ApplyFlatten

SpecFlatten == InitFlatten /\ [][NextFlatten]_vars

InitExtract == IdleService /\ input \in ExtractInputs(ExtractDepth) /\ output = None /\ pc = "start"

ApplyExtract ==
    /\ pc = "start"
    /\ output' = extract_paths(input, "")
    /\ pc' = "done"
    /\ UNCHANGED <<input, serviceVars>>

NextExtract == ApplyExtract

SpecExtract == InitExtract /\ [][NextExtract]_vars

InitSafe == IdleService /\ input \in SafeInputs(SafeDepth) /\ output = None /\ pc = "start"

ApplySafe ==
    /\ pc = "start"
    /\ output' = _safe_value(input)
    /\ pc' = "done"
    /\ UNCHANGED <<input, serviceVars>>

NextSafe == ApplySafe

SpecSafe == InitSafe /\ [][NextSafe]_vars

(***************************************************************************)
(* C5: extract_paths                                                       *)
(***************************************************************************)
PathJoin(prefix, k) == IF prefix = "" THEN k ELSE prefix \o "." \o k

RECURSIVE ClaimedFound(_, _)
\* The (path, value) pairs of the traversal the claim describes: a mapping value
\* is descended into, a non-empty sequence through its first element only and
\* only when that is a mapping, under path + "[]".
ClaimedFound(doc, prefix) ==
    IF ~IsDict(doc) THEN {}
    ELSE UNION {
        LET path == PathJoin(prefix, doc.keys[i])
            val == doc.items[i]
        IN  {<<path, val>>}
            \cup (IF IsDict(val) THEN ClaimedFound(val, path)
                  ELSE IF IsList(val) /\ val.items # <<>> /\ IsDict(val.items[1])
                       THEN ClaimedFound(val.items[1], path \o "[]")
                       ELSE {})
        : i \in 1..Len(doc.keys)}

RECURSIVE Found(_, _)
\* The (path, value) pairs of the traversal that descends into every mapping
\* value under its path and into every element of a sequence under the
\* sequence's own path.
Found(doc, prefix) ==
    IF IsDict(doc)
    THEN UNION {{<<PathJoin(prefix, doc.keys[i]), doc.items[i]>>}
                \cup Found(doc.items[i], PathJoin(prefix, doc.keys[i]))
                : i \in 1..Len(doc.keys)}
    ELSE IF IsList(doc)
    THEN UNION {Found(doc.items[i], prefix) : i \in 1..Len(doc.items)}
    ELSE {}

\* Whether the map m holds exactly the paths of the pairs F, each with the tags
\* of the values found at it.
IsPathMapOf(m, F) ==
    /\ DOMAIN m = {f[1] : f \in F}
    /\ \A p \in DOMAIN m : m[p] = {f[2].t : f \in {g \in F : g[1] = p}}

\* C5 as claimed: the keys of extract_paths(D) are the paths reached through
\* mappings and through the first element of a sequence of mappings (under
\* path + "[]"), and each path's tags are those of the values found there.
C5_ClaimedPaths == pc = "done" => IsPathMapOf(output, ClaimedFound(input, ""))

\* C5 amended: the keys of extract_paths(D) are the paths reached through
\* mappings and through every element of every sequence, a sequence's elements
\* under the sequence's own path (no "[]"); each path's tags are the union of
\* the tags of the values found there.
C5_AllElementPaths == pc = "done" => IsPathMapOf(output, Found(input, ""))

C5_Doc == Dict(<<"a">>, <<List(<<Dict(<<"b">>, <<IntV("1")>>), Dict(<<"b">>, <<StrV("x")>>)>>)>>)

\* C5 witness: a list of two mappings that hold different types under one key.
C5_Witness ==
    /\ pc = "done"
    /\ input = C5_Doc
    /\ DOMAIN output = {"a", "a.b"}
    /\ output["a.b"] = {"int", "str"}

(***************************************************************************)
(* C6: flatten_nested_lists_recursively                                    *)
(***************************************************************************)
RECURSIVE NoListInList(_)
NoListInList(x) ==
    /\ IsList(x) => \A i \in 1..Len(x.items) : ~IsList(x.items[i])
    /\ \A i \in 1..Len(x.items) : NoListInList(x.items[i])

\* C6: flatten is idempotent, flatten(flatten(S)) = flatten(S), and in
\* flatten(S) no sequence directly contains a sequence.
C6_FlattenIdempotent ==
    pc = "done" => /\ flatten_nested_lists_recursively(output) = output
                   /\ NoListInList(output)

(***************************************************************************)
(* C7: _safe_value                                                         *)
(***************************************************************************)
RECURSIVE JsonRepresentable(_)
JsonRepresentable(x) ==
    \/ x.t \in {"str", "int", "float", "bool", "NoneType"}
    \/ /\ x.t \in {"dict", "list"}
       /\ \A i \in 1..Len(x.items) : JsonRepresentable(x.items[i])

\* C7: _safe_value is total: for every value, malformed numeric and date
\* wrappers included, it returns a JSON-representable value and raises nothing.
C7_SafeValueTotal == pc = "done" => ~Raised(output) /\ JsonRepresentable(output)

=============================================================================
